---- MODULE Spec2Model ----
(***************************************************************************)
(* A model of example/import.py of csv2db: main() runs a department pass   *)
(* and an employee pass through CsvImporter and writes the combined insert *)
(* statements to import.sql.  The helper functions, the attribute maps,    *)
(* the import specifications and main are translated from import.py.  The  *)
(* importer itself (csv2db.py: CsvImporter, RecordSpec, the value classes  *)
(* and DbRecord) is not part of the sources at hand and is modelled from   *)
(* sections 4.1-4.4 of the specification.                                  *)
(***************************************************************************)
EXTENDS Integers, Sequences, FiniteSets, TLC

VARIABLES
    depFile,        \* rows of departments.txt (input, fixed after Init)
    empFile,        \* rows of employees.txt (input, fixed after Init)
    pc,             \* position of main
    i,              \* index of the next row the running importer reads
    oid,            \* OidFactory.oid of each OidFactory instance
    issued,         \* history: the values each OidFactory instance returned
    xrefs,          \* the running importer's cross-reference set, by <<table, role>>
    db_records,     \* records of the running importer / main's db_records
    departments,    \* module-level list 'departments'
    sql,            \* main's local 'sql', one element per statement
    import_sql,     \* contents of import.sql, NotWritten while absent
    failure,        \* the exception that ended main, "" while none
    produced,       \* history: records the importers of this main() produced
    run,            \* number of the current execution of main
    reused,         \* TRUE when this execution reuses the module objects of the previous one
    first_produced, \* history: 'produced' of the first execution
    first_sql,      \* history: import.sql as the first execution wrote it
    oid_at_start    \* history: the OidFactory counters when this execution started

vars == <<depFile, empFile, pc, i, oid, issued, xrefs, db_records, departments,
          sql, import_sql, failure, produced, run, reused, first_produced, first_sql,
          oid_at_start>>

----------------------------------------------------------------------------
(* Bounds of the model *)

MaxDeptRows == 2
MaxEmpRows == 2
MaxRuns == 2

(* Values the input columns are drawn from *)
DeptNames == {"Sales", "Eng"}
Firsts == {"Jane"}
Lasts == {"Doe"}
Phones == {"-", "555-1234"}

DeptRows == {[Department |-> "Sales", Floor |-> "3"], [Department |-> "Eng", Floor |-> "4"]}
EmpRowsFull == [First : Firsts, Last : Lasts, Department : DeptNames, Phone : Phones]
\* rows of an employees.txt whose header has no Phone column
EmpRowsNoPhone == [First : Firsts, Last : Lasts, Department : DeptNames]

SeqsUpTo(S, n) == UNION {[1..k -> S] : k \in 0..n}

NotWritten == <<"<no file>">>
None == "None"

----------------------------------------------------------------------------
(* Results of calls that may raise *)

Ok(v) == [ok |-> TRUE, val |-> v, err |-> ""]
Raise(e) == [ok |-> FALSE, val |-> "", err |-> e]

(* The value of attribute name of a record; attributes are <<name, value>> pairs *)
Attr(rec, name) ==
    LET k == CHOOSE k \in 1..Len(rec.attributes) : rec.attributes[k][1] = name
    IN rec.attributes[k][2]

Min(S) == CHOOSE m \in S : \A n \in S : m <= n

----------------------------------------------------------------------------
(* Helper functions of import.py *)

\* the OidFactory instances the module creates: PUBLIC_OBJECT_MAP, DEPARTMENT_MAP,
\* EMPLOYEE_MAP, PHONE_MAP
Factories == {"pub", "dep", "emp", "phone"}

OidFactory_init == 0

\* mutant: the counter is returned before it is incremented
OidFactory_call_post(o) == [oid |-> o + 1, value |-> ToString(o)]

\* mutant: the counter is set to 1 instead of incremented
OidFactory_call_stuck(o) == [oid |-> 1, value |-> ToString(1)]

\* OidFactory.__call__: self.oid += 1; return str(self.oid)
OidFactory_call(o) == [oid |-> o + 1, value |-> ToString(o + 1)]

quote(value) == "'" \o value \o "'"

make_name(values) == "'" \o values["First"] \o " " \o values["Last"] \o "'"

\* mutant: a missing department yields NULL instead of raising
department_oid_null(name) ==
    LET hits == {k \in 1..Len(departments) : departments[k].row_id = name}
    IN IF hits = {} THEN Ok("NULL")
       ELSE Ok(Attr(departments[Min(hits)], "_oid"))

\* mutant: the last matching department record is taken
department_oid_last(name) ==
    LET hits == {k \in 1..Len(departments) : departments[k].row_id = name}
    IN IF hits = {} THEN Raise("StopIteration")
       ELSE Ok(Attr(departments[CHOOSE m \in hits : \A n \in hits : n <= m], "_oid"))

\* next(d.attributes['_oid'] for d in departments if d.row_id == name)
department_oid(name) ==
    LET hits == {k \in 1..Len(departments) : departments[k].row_id = name}
    IN IF hits = {} THEN Raise("StopIteration")
       ELSE Ok(Attr(departments[Min(hits)], "_oid"))

\* mutant: every row is taken to have a phone
has_phone_always(row) ==
    IF "Phone" \in DOMAIN row THEN Ok(TRUE) ELSE Raise("KeyError")

\* True if row['Phone'] != '-' else False; row['Phone'] raises KeyError
has_phone(row) ==
    IF "Phone" \in DOMAIN row THEN Ok(row["Phone"] # "-") ELSE Raise("KeyError")

----------------------------------------------------------------------------
(* Value classes, as the attribute maps construct them *)

ConstValue(v) == [kind |-> "Const", value |-> v]
ColumnValue(col, conv) == [kind |-> "Column", col |-> col, convert |-> conv]
MultiColumnValue(cols, conv) == [kind |-> "MultiColumn", cols |-> cols, convert |-> conv]
DynamicValue(factory) == [kind |-> "Dynamic", factory |-> factory]
XReference(table, role, attr) ==
    [kind |-> "XReference", table |-> table, role |-> role, attr |-> attr]
RecordSpec(table, role, attr_map, condition) ==
    [table |-> table, role |-> role, attr_map |-> attr_map, condition |-> condition]

(* Import specifications of import.py *)

PUBLIC_OBJECT_MAP == <<
    <<"_oid", DynamicValue("pub")>>,
    <<"date", ConstValue("now()")>> >>

\* mutant: the departments take their _oid from the publicobject counter
DEPARTMENT_MAP_shared == <<
    <<"_oid", DynamicValue("pub")>>,
    <<"_publicobj_oid", XReference("publicobject", "sole", "_oid")>>,
    <<"name", ColumnValue("Department", "quote")>>,
    <<"floor", ColumnValue("Floor", "quote")>> >>

DEPARTMENT_MAP == <<
    <<"_oid", DynamicValue("dep")>>,
    <<"_publicobj_oid", XReference("publicobject", "sole", "_oid")>>,
    <<"name", ColumnValue("Department", "quote")>>,
    <<"floor", ColumnValue("Floor", "quote")>> >>

DEP_IMPORT_SPEC == <<
    RecordSpec("publicobject", "sole", PUBLIC_OBJECT_MAP, "always"),
    RecordSpec("departments", "sole", DEPARTMENT_MAP, "always") >>

EMPLOYEE_MAP == <<
    <<"_oid", DynamicValue("emp")>>,
    <<"_publicobj_oid", XReference("publicobject", "emp", "_oid")>>,
    <<"department_oid", ColumnValue("Department", "department_oid")>>,
    <<"name", MultiColumnValue({"First", "Last"}, "make_name")>> >>

\* mutant: _employee_oid refers to the employee's publicobject record
PHONE_MAP_wrongref == <<
    <<"_oid", DynamicValue("phone")>>,
    <<"_publicobj_oid", XReference("publicobject", "phone", "_oid")>>,
    <<"_employee_oid", XReference("publicobject", "emp", "_oid")>>,
    <<"number", ColumnValue("Phone", "quote")>> >>

PHONE_MAP == <<
    <<"_oid", DynamicValue("phone")>>,
    <<"_publicobj_oid", XReference("publicobject", "phone", "_oid")>>,
    <<"_employee_oid", XReference("employees", "sole", "_oid")>>,
    <<"number", ColumnValue("Phone", "quote")>> >>

\* mutant: the roles 'phone' and 'emp' of publicobject are declared in the other order
EMP_IMPORT_SPEC_swapped == <<
    RecordSpec("publicobject", "phone", PUBLIC_OBJECT_MAP, "has_phone"),
    RecordSpec("publicobject", "emp", PUBLIC_OBJECT_MAP, "always"),
    RecordSpec("employees", "sole", EMPLOYEE_MAP, "always"),
    RecordSpec("phones", "sole", PHONE_MAP, "has_phone") >>

\* mutant: the phones record is not gated by has_phone
EMP_IMPORT_SPEC_ungated == <<
    RecordSpec("publicobject", "emp", PUBLIC_OBJECT_MAP, "always"),
    RecordSpec("publicobject", "phone", PUBLIC_OBJECT_MAP, "has_phone"),
    RecordSpec("employees", "sole", EMPLOYEE_MAP, "always"),
    RecordSpec("phones", "sole", PHONE_MAP, "always") >>

EMP_IMPORT_SPEC == <<
    RecordSpec("publicobject", "emp", PUBLIC_OBJECT_MAP, "always"),
    RecordSpec("publicobject", "phone", PUBLIC_OBJECT_MAP, "has_phone"),
    RecordSpec("employees", "sole", EMPLOYEE_MAP, "always"),
    RecordSpec("phones", "sole", PHONE_MAP, "has_phone") >>

----------------------------------------------------------------------------
(* The importer: value resolution, RecordSpec evaluation, one row of import_data *)

Condition(name, row) ==
    IF name = "has_phone" THEN has_phone(row) ELSE Ok(TRUE)

Convert(name, value) ==
    CASE name = "quote" -> Ok(quote(value))
      [] name = "department_oid" -> department_oid(value)
      [] name = "make_name" -> Ok(make_name(value))

\* resolve(row) of one value object, in the state st of the running importer;
\* yields the result and the state after it
Resolve(res, row, st) ==
    CASE res.kind = "Const" -> [r |-> Ok(res.value), st |-> st]
      [] res.kind = "Column" ->
            [r |-> IF res.col \in DOMAIN row
                   THEN Convert(res.convert, row[res.col])
                   ELSE Raise("KeyError"),
             st |-> st]
      [] res.kind = "MultiColumn" ->
            [r |-> IF res.cols \subseteq DOMAIN row
                   THEN Convert(res.convert, [c \in res.cols |-> row[c]])
                   ELSE Raise("KeyError"),
             st |-> st]
      [] res.kind = "Dynamic" ->
            LET c == OidFactory_call(st.oid[res.factory])
            IN [r |-> Ok(c.value),
                st |-> [st EXCEPT !.oid[res.factory] = c.oid,
                                  !.issued[res.factory] = Append(@, c.value)]]
      [] res.kind = "XReference" ->
            [r |-> IF <<res.table, res.role>> \in DOMAIN st.xrefs
                   THEN Ok(Attr(st.xrefs[<<res.table, res.role>>], res.attr))
                   ELSE Raise("XReferenceError"),
             st |-> st]

\* the attributes attr_map[k..] in declaration order, appended to acc; stops at the
\* first resolver that raises
RECURSIVE EvalAttrs(_, _, _, _, _)
EvalAttrs(attr_map, k, row, st, acc) ==
    IF k > Len(attr_map) THEN [err |-> "", attrs |-> acc, st |-> st]
    ELSE LET x == Resolve(attr_map[k][2], row, st)
         IN IF x.r.ok
            THEN EvalAttrs(attr_map, k + 1, row, x.st,
                           Append(acc, <<attr_map[k][1], x.r.val>>))
            ELSE [err |-> x.r.err, attrs |-> acc, st |-> x.st]

Register(x, key, rec) ==
    [q \in DOMAIN x \cup {key} |-> IF q = key THEN rec ELSE x[q]]

\* one RecordSpec against one row: nothing when the condition is false, otherwise one
\* record, registered in the cross-reference set under <<table, role>>
EvalRecordSpec(rs, row, row_id, rowno, pass, st) ==
    LET cond == Condition(rs.condition, row)
    IN IF ~cond.ok THEN [st EXCEPT !.err = cond.err]
       ELSE IF ~cond.val THEN st
       ELSE LET a == EvalAttrs(rs.attr_map, 1, row, st, << >>)
                rec == [table_name |-> rs.table, role |-> rs.role, row_id |-> row_id,
                        attributes |-> a.attrs, rowno |-> rowno, pass |-> pass]
            IN IF a.err # "" THEN [a.st EXCEPT !.err = a.err]
               ELSE [a.st EXCEPT !.recs = Append(@, rec),
                                 !.xrefs = Register(@, <<rs.table, rs.role>>, rec)]

\* the RecordSpecs spec[k..] in declaration order; stops at the first failure
RECURSIVE EvalRow(_, _, _, _, _, _, _)
EvalRow(spec, k, row, row_id, rowno, pass, st) ==
    IF k > Len(spec) \/ st.err # "" THEN st
    ELSE EvalRow(spec, k + 1, row, row_id, rowno, pass,
                 EvalRecordSpec(spec[k], row, row_id, rowno, pass, st))

\* import_data(id_col): the row_id of the records of a row
RowId(row, id_col) == IF id_col = None THEN None ELSE row[id_col]

ImporterState == [oid |-> oid, issued |-> issued, xrefs |-> xrefs, recs |-> << >>, err |-> ""]

\* DbRecord.insert_statement
RECURSIVE Join(_, _, _)
Join(attrs, k, field) ==
    IF k > Len(attrs) THEN ""
    ELSE (IF k > 1 THEN ", " ELSE "") \o attrs[k][field] \o Join(attrs, k + 1, field)

insert_statement(rec) ==
    "INSERT INTO " \o rec.table_name \o " (" \o Join(rec.attributes, 1, 1)
        \o ") VALUES (" \o Join(rec.attributes, 1, 2) \o ");"

Statements(recs) == [k \in 1..Len(recs) |-> insert_statement(recs[k])]

----------------------------------------------------------------------------
(* main *)

Init ==
    /\ depFile \in SeqsUpTo(DeptRows, MaxDeptRows)
    /\ empFile \in SeqsUpTo(EmpRowsFull, MaxEmpRows) \cup SeqsUpTo(EmpRowsNoPhone, MaxEmpRows)
    /\ pc = "dep_import"
    /\ i = 1
    /\ oid = [f \in Factories |-> OidFactory_init]
    /\ issued = [f \in Factories |-> << >>]
    /\ xrefs = << >>
    /\ db_records = << >>
    /\ departments = << >>
    /\ sql = << >>
    /\ import_sql = NotWritten
    /\ failure = ""
    /\ produced = << >>
    /\ run = 1
    /\ reused = FALSE
    /\ first_produced = << >>
    /\ first_sql = NotWritten
    /\ oid_at_start = oid

\* one row of an importer run over file with spec; a failure ends main
ImportRow(file, spec, id_col, pass) ==
    LET row == file[i]
        st == EvalRow(spec, 1, row, RowId(row, id_col), i, pass, ImporterState)
    IN /\ oid' = st.oid
       /\ issued' = st.issued
       /\ IF st.err # ""
          THEN /\ pc' = "aborted"
               /\ failure' = st.err
               /\ UNCHANGED <<i, xrefs, db_records, produced>>
          ELSE /\ i' = i + 1
               /\ xrefs' = st.xrefs
               /\ db_records' = db_records \o st.recs
               /\ produced' = produced \o st.recs
               /\ UNCHANGED <<pc, failure>>
       /\ UNCHANGED <<depFile, empFile, departments, sql, import_sql, run, reused,
                      first_produced, first_sql, oid_at_start>>

\* importer.import_data(id_col='Department'), one row of departments.txt
DepImportRow ==
    /\ pc = "dep_import"
    /\ i <= Len(depFile)
    /\ ImportRow(depFile, DEP_IMPORT_SPEC, "Department", "dep")

RECURSIVE SelectTable(_, _)
SelectTable(recs, table) ==
    IF recs = << >> THEN << >>
    ELSE (IF Head(recs).table_name = table THEN <<Head(recs)>> ELSE << >>)
             \o SelectTable(Tail(recs), table)

\* mutant: the statements are written to import.sql as soon as the department pass ends
DepCollect_writes ==
    /\ pc = "dep_import"
    /\ i > Len(depFile)
    /\ sql' = sql \o Statements(db_records)
    /\ import_sql' = sql'
    /\ departments' = departments \o SelectTable(db_records, "departments")
    /\ pc' = "emp_import"
    /\ i' = 1
    /\ xrefs' = << >>
    /\ db_records' = << >>
    /\ UNCHANGED <<depFile, empFile, oid, issued, failure, produced, run,
                   reused, first_produced, first_sql, oid_at_start>>

\* the loop over the department records, then the employee importer is created
DepCollect ==
    /\ pc = "dep_import"
    /\ i > Len(depFile)
    /\ sql' = sql \o Statements(db_records)
    /\ departments' = departments \o SelectTable(db_records, "departments")
    /\ pc' = "emp_import"
    /\ i' = 1
    /\ xrefs' = << >>
    /\ db_records' = << >>
    /\ UNCHANGED <<depFile, empFile, oid, issued, import_sql, failure, produced, run,
                   reused, first_produced, first_sql, oid_at_start>>

\* importer.import_data(), one row of employees.txt
EmpImportRow ==
    /\ pc = "emp_import"
    /\ i <= Len(empFile)
    /\ ImportRow(empFile, EMP_IMPORT_SPEC, None, "emp")

\* the loop over the employee records
EmpCollect ==
    /\ pc = "emp_import"
    /\ i > Len(empFile)
    /\ sql' = sql \o Statements(db_records)
    /\ pc' = "write"
    /\ UNCHANGED <<depFile, empFile, i, oid, issued, xrefs, db_records, departments,
                   import_sql, failure, produced, run, reused, first_produced, first_sql, oid_at_start>>

\* with open('import.sql', 'w+') as f: f.write(sql)
WriteFile ==
    /\ pc = "write"
    /\ import_sql' = sql
    /\ pc' = "done"
    /\ UNCHANGED <<depFile, empFile, i, oid, issued, xrefs, db_records, departments,
                   sql, failure, produced, run, reused, first_produced, first_sql, oid_at_start>>

\* main() is called again in the same interpreter: the module-level maps, their
\* OidFactory instances and 'departments' are the ones the previous call used
Rerun ==
    /\ pc = "done"
    /\ run < MaxRuns
    /\ run' = run + 1
    /\ reused' = TRUE
    /\ first_produced' = IF run = 1 THEN produced ELSE first_produced
    /\ first_sql' = IF run = 1 THEN import_sql ELSE first_sql
    /\ oid_at_start' = oid
    /\ pc' = "dep_import"
    /\ i' = 1
    /\ sql' = << >>
    /\ produced' = << >>
    /\ xrefs' = << >>
    /\ db_records' = << >>
    /\ UNCHANGED <<depFile, empFile, oid, issued, departments, import_sql, failure>>

\* the script is started again: the module is loaded anew
Restart ==
    /\ pc = "done"
    /\ run < MaxRuns
    /\ run' = run + 1
    /\ reused' = FALSE
    /\ first_produced' = IF run = 1 THEN produced ELSE first_produced
    /\ first_sql' = IF run = 1 THEN import_sql ELSE first_sql
    /\ oid_at_start' = [f \in Factories |-> OidFactory_init]
    /\ pc' = "dep_import"
    /\ i' = 1
    /\ sql' = << >>
    /\ produced' = << >>
    /\ xrefs' = << >>
    /\ db_records' = << >>
    /\ oid' = [f \in Factories |-> OidFactory_init]
    /\ issued' = [f \in Factories |-> << >>]
    /\ departments' = << >>
    /\ UNCHANGED <<depFile, empFile, import_sql, failure>>

Next ==
    \/ DepImportRow
    \/ DepCollect
    \/ EmpImportRow
    \/ EmpCollect
    \/ WriteFile

Spec == Init /\ [][Next]_vars

NextRerun ==
    \/ Next
    \/ Rerun
    \/ Restart

SpecRerun == Init /\ [][NextRerun]_vars

----------------------------------------------------------------------------
(* Properties *)

\* the records of recs with this table and role
Matching(recs, table, role) ==
    {k \in 1..Len(recs) : recs[k].table_name = table /\ recs[k].role = role}

\* the records the step added to 'produced'
NewRecords == SubSeq(produced', Len(produced) + 1, Len(produced'))

RowDone == i' = i + 1

\* C1: for every row whose evaluation completes, each RecordSpec whose condition is
\* true yields exactly one record and each whose condition is false yields none and
\* calls no OidFactory: in the employee pass a row with Phone = '-' yields neither
\* the 'phone' publicobject record nor the phones record and the counters advance
\* only for the 'emp' publicobject and employees records, any other Phone value
\* yields both; a row that aborts with Phone = '-' consumes no phone _oid either.
C1_Gating ==
    [][/\ (pc = "dep_import" /\ RowDone) =>
             /\ Cardinality(Matching(NewRecords, "publicobject", "sole")) = 1
             /\ Cardinality(Matching(NewRecords, "departments", "sole")) = 1
             /\ Len(NewRecords) = 2
             /\ oid'["pub"] = oid["pub"] + 1
             /\ oid'["dep"] = oid["dep"] + 1
       /\ (pc = "emp_import" /\ RowDone) =>
             /\ Cardinality(Matching(NewRecords, "publicobject", "emp")) = 1
             /\ Cardinality(Matching(NewRecords, "employees", "sole")) = 1
             /\ oid'["emp"] = oid["emp"] + 1
             /\ IF empFile[i]["Phone"] = "-"
                THEN /\ Matching(NewRecords, "publicobject", "phone") = {}
                     /\ Matching(NewRecords, "phones", "sole") = {}
                     /\ Len(NewRecords) = 2
                     /\ oid'["pub"] = oid["pub"] + 1
                     /\ oid'["phone"] = oid["phone"]
                ELSE /\ Cardinality(Matching(NewRecords, "publicobject", "phone")) = 1
                     /\ Cardinality(Matching(NewRecords, "phones", "sole")) = 1
                     /\ Len(NewRecords) = 4
                     /\ oid'["pub"] = oid["pub"] + 2
                     /\ oid'["phone"] = oid["phone"] + 1
       /\ (pc = "emp_import" /\ pc' = "aborted" /\ "Phone" \in DOMAIN empFile[i]
             /\ empFile[i]["Phone"] = "-") =>
             /\ oid'["phone"] = oid["phone"]
             /\ oid'["pub"] = oid["pub"] + 1
      ]_vars

\* a row without a phone and then a row with one have been imported
C1_Witness ==
    /\ pc = "emp_import"
    /\ i = 3
    /\ empFile[1]["Phone"] = "-"
    /\ empFile[2]["Phone"] # "-"
    /\ Len(produced) = 2 * Len(depFile) + 6
    /\ oid["phone"] = 1

TwoDepartments ==
    << [Department |-> "Sales", Floor |-> "3"], [Department |-> "Eng", Floor |-> "4"] >>

DepPassDone == pc = "emp_import" /\ i = 1 /\ db_records = << >>

AttrValues(recs, name) == [k \in 1..Len(recs) |-> Attr(recs[k], name)]

\* C2 as stated: the department pass over Sales/3, Eng/4 from fresh state yields
\* publicobject records with _oid 1, 2 and departments records with _oid 3, 4 that
\* refer to publicobject 1, 2 and carry name 'Sales'/'Eng' and floor '3'/'4'.
C2_Original ==
    (DepPassDone /\ depFile = TwoDepartments) =>
        LET pubs == SelectTable(produced, "publicobject")
            deps == SelectTable(produced, "departments")
        IN /\ AttrValues(pubs, "_oid") = <<"1", "2">>
           /\ AttrValues(deps, "_oid") = <<"3", "4">>
           /\ AttrValues(deps, "_publicobj_oid") = <<"1", "2">>
           /\ AttrValues(deps, "name") = <<"'Sales'", "'Eng'">>
           /\ AttrValues(deps, "floor") = <<"'3'", "'4'">>

\* C2 amended: as above, but the departments records have _oid 1 and 2, numbered by
\* the OidFactory of DEPARTMENT_MAP, which is not the one of PUBLIC_OBJECT_MAP.
C2_Amended ==
    (DepPassDone /\ depFile = TwoDepartments) =>
        LET pubs == SelectTable(produced, "publicobject")
            deps == SelectTable(produced, "departments")
        IN /\ AttrValues(pubs, "_oid") = <<"1", "2">>
           /\ AttrValues(deps, "_oid") = <<"1", "2">>
           /\ AttrValues(deps, "_publicobj_oid") = <<"1", "2">>
           /\ AttrValues(deps, "name") = <<"'Sales'", "'Eng'">>
           /\ AttrValues(deps, "floor") = <<"'3'", "'4'">>
           /\ AttrValues(deps, "_oid") = AttrValues(departments, "_oid")

C2_Witness ==
    /\ DepPassDone
    /\ depFile = TwoDepartments
    /\ Len(produced) = 4
    /\ Len(departments) = 2

\* C3: the values one OidFactory instance returns are 1, 2, ..., N in the order of
\* the calls, whatever records of whatever table, role and pass the calls are for.
C3_Sequential ==
    \A f \in Factories :
        /\ oid[f] = Len(issued[f])
        /\ \A k \in 1..Len(issued[f]) : issued[f][k] = ToString(k)

\* the publicobject factory has served both passes and the roles 'sole', 'emp', 'phone'
C3_Witness ==
    /\ pc = "done"
    /\ Len(issued["pub"]) = Len(depFile) + 2 * Len(empFile)
    /\ Len(depFile) >= 1
    /\ Len(empFile) >= 2

\* the retained departments records with this row_id
DepartmentsNamed(name) == {d \in 1..Len(departments) : departments[d].row_id = name}

\* the rows of employees.txt the employee importer has completed
EmpRowsDone ==
    IF pc \in {"write", "done"} THEN 1..Len(empFile)
    ELSE IF pc = "emp_import" THEN 1..(i - 1)
    ELSE {}

\* C4: the department_oid of every employees record is the _oid of the (first)
\* retained departments record whose row_id is the row's Department; a row whose
\* Department has no retained record ends main with an exception: no employees
\* record is produced for it, none carries a null department_oid, nothing is written.
C4_DepartmentOid ==
    /\ \A k \in 1..Len(produced) :
          produced[k].table_name = "employees" =>
              LET hits == DepartmentsNamed(empFile[produced[k].rowno]["Department"])
              IN /\ hits # {}
                 /\ departments[Min(hits)].table_name = "departments"
                 /\ Attr(produced[k], "department_oid")
                        = Attr(departments[Min(hits)], "_oid")
                 /\ Attr(produced[k], "department_oid") \notin {"NULL", "None", ""}
    /\ \A r \in EmpRowsDone : DepartmentsNamed(empFile[r]["Department"]) # {}
    /\ (pc = "aborted" /\ failure = "StopIteration") =>
          /\ DepartmentsNamed(empFile[i]["Department"]) = {}
          /\ \A k \in 1..Len(produced) :
                ~(produced[k].pass = "emp" /\ produced[k].rowno = i)
          /\ import_sql = NotWritten

\* an employee of the second department has been linked to it
C4_Witness ==
    /\ pc = "done"
    /\ Len(departments) = 2
    /\ \E k \in 1..Len(produced) :
          /\ produced[k].table_name = "employees"
          /\ empFile[produced[k].rowno]["Department"] = departments[2].row_id
          /\ departments[1].row_id # departments[2].row_id
          /\ Attr(produced[k], "department_oid") = "2"

\* the XReference attributes of the example specs:
\* <<table, attribute, referenced table, referenced role, referenced attribute>>
ExampleRefs == {
    <<"departments", "_publicobj_oid", "publicobject", "sole", "_oid">>,
    <<"employees", "_publicobj_oid", "publicobject", "emp", "_oid">>,
    <<"phones", "_publicobj_oid", "publicobject", "phone", "_oid">>,
    <<"phones", "_employee_oid", "employees", "sole", "_oid">> }

\* the records the importer run of record k had produced before it that x refers to
Targets(k, x) ==
    {j \in 1..(k - 1) : /\ produced[j].pass = produced[k].pass
                        /\ produced[j].table_name = x[3]
                        /\ produced[j].role = x[4]}

OfPass(recs, pass) == {k \in 1..Len(recs) : recs[k].pass = pass}

\* C6: import.sql is written only by the last step of main, after both passes have
\* completed, and then holds the insert statement of every record of both passes;
\* when a resolution fails in a pass, main ends without the file being written.
C6_AllOrNothing ==
    /\ pc # "done" => import_sql = NotWritten
    /\ pc = "aborted" => failure \in {"KeyError", "StopIteration", "XReferenceError"}
    /\ pc = "done" =>
          /\ failure = ""
          /\ import_sql = Statements(produced)
          /\ Cardinality(OfPass(produced, "dep")) = 2 * Len(depFile)
          /\ Cardinality(OfPass(produced, "emp")) >= 2 * Len(empFile)
          /\ \A r \in 1..Len(empFile) :
                \E k \in OfPass(produced, "emp") :
                    produced[k].rowno = r /\ produced[k].table_name = "employees"

\* the file has been written with the statements of both passes
C6_Witness ==
    /\ pc = "done"
    /\ Len(depFile) = 2
    /\ Len(empFile) = 2
    /\ Len(import_sql) >= 8
    /\ import_sql[1] = "INSERT INTO publicobject (_oid, date) VALUES (1, now());"

\* the order the claim states: pass, row, declared table/role
PassNo(rec) == IF rec.pass = "dep" THEN 1 ELSE 2

Declared(rec) ==
    CASE rec.pass = "dep" /\ rec.table_name = "publicobject" /\ rec.role = "sole" -> 1
      [] rec.pass = "dep" /\ rec.table_name = "departments" /\ rec.role = "sole" -> 2
      [] rec.pass = "emp" /\ rec.table_name = "publicobject" /\ rec.role = "emp" -> 1
      [] rec.pass = "emp" /\ rec.table_name = "publicobject" /\ rec.role = "phone" -> 2
      [] rec.pass = "emp" /\ rec.table_name = "employees" /\ rec.role = "sole" -> 3
      [] rec.pass = "emp" /\ rec.table_name = "phones" /\ rec.role = "sole" -> 4

Before(a, b) ==
    \/ PassNo(a) < PassNo(b)
    \/ PassNo(a) = PassNo(b) /\ a.rowno < b.rowno
    \/ PassNo(a) = PassNo(b) /\ a.rowno = b.rowno /\ Declared(a) < Declared(b)

\* C7: the statements are in the order of the passes (department pass first), within
\* a pass in the order of the rows, within a row in the declared table/role order;
\* the record an XReference refers to precedes the record that holds it.
C7_Order ==
    /\ \A k, l \in 1..Len(produced) : k < l => Before(produced[k], produced[l])
    /\ \A k \in 1..Len(produced) : \A x \in ExampleRefs :
          produced[k].table_name = x[1] =>
              \E j \in Targets(k, x) : produced[j].rowno = produced[k].rowno
    /\ pc = "emp_import" => sql = Statements(SubSeq(produced, 1, 2 * Len(depFile)))
    /\ pc \in {"write", "done"} => sql = Statements(produced)
    /\ pc = "done" => import_sql = sql

\* both passes have produced records, one employee row with a phone, one without
C7_Witness ==
    /\ pc = "done"
    /\ Len(depFile) = 2
    /\ Len(empFile) = 2
    /\ Len(sql) = 4 + 6
    /\ produced[5].role = "emp"
    /\ produced[6].role = "phone"

\* C8 as stated: a second execution over the same rows yields the output of the
\* first, also when it reuses the module-level spec objects and their OidFactory
\* instances.
C8_Original ==
    (run >= 2 /\ pc = "done") => import_sql = first_sql /\ produced = first_produced

\* the OidFactory instance an identifier attribute of a table is numbered by
FactoryOf(table, attr) ==
    CASE attr = "_publicobj_oid" -> "pub"
      [] attr = "_employee_oid" -> "emp"
      [] attr = "_oid" /\ table = "publicobject" -> "pub"
      [] attr = "_oid" /\ table = "departments" -> "dep"
      [] attr = "_oid" /\ table = "employees" -> "emp"
      [] attr = "_oid" /\ table = "phones" -> "phone"

\* y is the identifier x advanced by n
Shifted(x, y, n) == \E m \in 1..(Len(produced) + Len(first_produced)) :
                        x = ToString(m) /\ y = ToString(m + n)

\* C8 amended: a later execution over the same rows yields the records of the first
\* in the same order and equal in every attribute, except that each _oid,
\* _publicobj_oid and _employee_oid exceeds its value in the first execution by the
\* value the counter of its OidFactory had when the execution started: the output is
\* that of the first execution only when the execution starts from fresh module
\* state, and with reused OidFactory instances every identifier differs, while
\* department_oid still is the _oid of the departments record the first execution
\* retained.
C8_Amended ==
    (run >= 2 /\ pc = "done") =>
        /\ Len(produced) = Len(first_produced)
        /\ Len(import_sql) = Len(first_sql)
        /\ \A k \in 1..Len(produced) :
              LET a == first_produced[k]
                  b == produced[k]
              IN /\ b.table_name = a.table_name
                 /\ b.role = a.role
                 /\ b.row_id = a.row_id
                 /\ b.rowno = a.rowno
                 /\ b.pass = a.pass
                 /\ Len(b.attributes) = Len(a.attributes)
                 /\ \A n \in 1..Len(a.attributes) :
                       /\ b.attributes[n][1] = a.attributes[n][1]
                       /\ IF a.attributes[n][1] \in {"_oid", "_publicobj_oid", "_employee_oid"}
                          THEN Shifted(a.attributes[n][2], b.attributes[n][2],
                                       oid_at_start[FactoryOf(a.table_name, a.attributes[n][1])])
                          ELSE b.attributes[n][2] = a.attributes[n][2]
                 /\ (reused /\ oid_at_start["pub"] > 0) => import_sql[k] # first_sql[k]
        /\ ~reused => import_sql = first_sql
        /\ \A f \in Factories :
              LET n == Cardinality({k \in 1..Len(first_produced) :
                          FactoryOf(first_produced[k].table_name, "_oid") = f})
              IN IF reused THEN oid_at_start[f] >= n /\ oid[f] = oid_at_start[f] + n
                 ELSE oid_at_start[f] = 0 /\ oid[f] = n

\* a second execution with reused module objects has completed both passes
C8_Witness ==
    /\ run = 2
    /\ reused
    /\ pc = "done"
    /\ Len(depFile) = 2
    /\ Len(produced) >= 8
    /\ \E k \in 1..Len(produced) :
          /\ produced[k].table_name = "employees"
          /\ Attr(produced[k], "department_oid") = "2"
          /\ Attr(produced[k], "_oid") = ToString(Len(empFile) + 1)

\* the records of a table among the first k of recs
CountTable(recs, k, table) ==
    Cardinality({j \in 1..k : recs[j].table_name = table})

\* C9: in the combined output of one execution of main no two records of a table
\* have the same _oid: the records of each table are numbered 1, 2, ... in output
\* order by the table's own counter, the publicobject records of the employee pass
\* continuing after those of the department pass.
C9_UniqueOids ==
    /\ \A k, l \in 1..Len(produced) :
          (k # l /\ produced[k].table_name = produced[l].table_name)
              => Attr(produced[k], "_oid") # Attr(produced[l], "_oid")
    /\ \A k \in 1..Len(produced) :
          Attr(produced[k], "_oid") = ToString(CountTable(produced, k, produced[k].table_name))
    /\ \A k \in OfPass(produced, "emp") :
          produced[k].table_name = "publicobject" =>
              \E m \in (Len(depFile) + 1)..oid["pub"] : Attr(produced[k], "_oid") = ToString(m)
    /\ pc = "done" => import_sql = Statements(produced)

\* publicobject records of the roles 'sole', 'emp' and 'phone' are in the output
C9_Witness ==
    /\ pc = "done"
    /\ Len(depFile) = 2
    /\ \E k, l \in OfPass(produced, "emp") :
          /\ produced[k].role = "emp" /\ Attr(produced[k], "_oid") = "3"
          /\ produced[l].role = "phone" /\ Attr(produced[l], "_oid") = "4"

\* C10: in the employee pass the phones record of a row is produced exactly when the
\* 'phone' publicobject record of that row is, after the employees record of the
\* row, and no sequence of rows makes the pass end in an unresolvable XReference.
C10_NoMissingTarget ==
    /\ failure # "XReferenceError"
    /\ \A r \in EmpRowsDone :
          LET of(table, role) == {k \in OfPass(produced, "emp") :
                                     /\ produced[k].rowno = r
                                     /\ produced[k].table_name = table
                                     /\ produced[k].role = role}
          IN /\ (of("phones", "sole") # {}) <=> (of("publicobject", "phone") # {})
             /\ (of("phones", "sole") # {}) <=> (empFile[r]["Phone"] # "-")
             /\ Cardinality(of("employees", "sole")) = 1
             /\ \A p \in of("phones", "sole") :
                   /\ \A e \in of("employees", "sole") : e < p
                   /\ \A q \in of("publicobject", "phone") : q < p

\* the pass has completed over a row with a phone followed by a row without one
C10_Witness ==
    /\ pc \in {"write", "done"}
    /\ Len(empFile) = 2
    /\ empFile[1]["Phone"] # "-"
    /\ empFile[2]["Phone"] = "-"
    /\ Cardinality(Matching(produced, "phones", "sole")) = 1

====
